---- MODULE Spec2Model ----
(***************************************************************************)
(* A model of chat-server.c: a single-threaded libev chat relay.  main     *)
(* sets up the listening socket and runs the event loop; accept_cb turns a *)
(* pending connection into a client_t in client_tailq_head; read_cb reads  *)
(* chunks from one client and send()s each to every other client, or tears *)
(* the client down.  The remote clients and the kernel are the             *)
(* environment.                                                            *)
(*                                                                         *)
(* The single thread of control is at `pc`: a step of main's bootstrap,    *)
(* "ev_loop" (blocked in the loop, no callback executing), or a statement  *)
(* of accept_cb or read_cb.  The environment acts at any time.             *)
(***************************************************************************)
EXTENDS Integers, Sequences, FiniteSets

\* ---- bounds of the model ----
\* connections the remote side ever opens
MaxConns == 3
\* bytes the remote side ever writes, over all connections
MaxSent == 2
\* _countof(buffer) in read_cb, scaled down from 8192
ChunkSize == 1
\* bytes the transport buffers for one socket before it holds the writer back,
\* in the runs where the remote ends write without bound
MaxPending == 1

\* ---- program constants ----
NULL == 0
INVALID_SOCKET == -1
\* the backlog argument of listen()
BACKLOG == 5

Socks == 1..MaxConns
Clients == 1..MaxConns

VARIABLES
    pc,               \* position of the single thread
    listen_socket,    \* "none" | "open": main's listen_socket
    listen_nonblock,  \* ioctlsocket(FIONBIO) was applied to listen_socket
    listen_reuseaddr, \* setsockopt(SO_REUSEADDR) was applied
    listen_bound,     \* bind() succeeded
    listening,        \* listen() succeeded
    w_accept_active,  \* ev_io_start was called on w_accept.io and no stop since
    client_tailq_head,\* the tail queue of client_t, a sequence of client ids
    allocated,        \* client_t objects calloc'ed and not freed
    freed,            \* client_t objects that were freed
    socketd,          \* client_t.socketd
    io_active,        \* client_t.io watchers that are started
    sock_open,        \* accepted sockets open on the server side
    sock_nonblock,    \* accepted sockets in non-blocking mode
    fionbio,          \* accepted sockets on which ioctlsocket(FIONBIO) was called
    closes,           \* closesocket() calls per accepted socket
    nconn,            \* connections the remote side opened so far: 1..nconn
    naccepted,        \* connections accept() returned so far: 1..naccepted
    remote,           \* a connection: "open" | "closed" | "reset" by the remote end, "gone"
    inbuf,            \* bytes written by the remote end, not yet read by recv
    nsent,            \* bytes written by all remote ends so far
    rd,               \* bytes recv returned so far, per socket
    handed,           \* <<sender socket, byte>> passed to send(), per target socket
    delivered,        \* <<sender socket, byte>> that reached the remote end
    joined,           \* per client, Len(rd[s]) of every s when it was inserted
    revents,          \* accept_cb: revents
    client_socket,    \* accept_cb: client_socket
    acc_client,       \* accept_cb: client
    this_client,      \* read_cb: this_client
    client,           \* read_cb: client, the TAILQ_FOREACH cursor
    buffer,           \* read_cb: the bytes of buffer that recv filled
    read,             \* read_cb: read
    wsa_error,        \* WSAGetLastError(): the error of the last failed socket call
    targets,          \* read_cb: <<client, result>> of each send() of the current chunk
    entry,            \* the registry as it was when the running callback was entered
    entry_sock,       \* what recv could see on this_client's socket at that moment
    recording         \* the run keeps rd, handed, delivered and counts the bytes

sockvars == <<listen_socket, listen_nonblock, listen_reuseaddr, listen_bound,
              listening, sock_open, sock_nonblock, fionbio, closes>>
regvars == <<client_tailq_head, allocated, freed, socketd, io_active, joined>>
netvars == <<nconn, remote, inbuf, nsent>>
histvars == <<rd, handed, delivered>>
acceptlocals == <<revents, client_socket, acc_client>>
readlocals == <<this_client, client, buffer, read, targets>>

vars == <<pc, sockvars, w_accept_active, regvars, naccepted, netvars, histvars,
          wsa_error, acceptlocals, readlocals, entry, entry_sock, recording>>

\* ---- queue.h ----
Range(q) == {q[i] : i \in 1..Len(q)}

TAILQ_FIRST(q) == IF q = <<>> THEN NULL ELSE q[1]

IndexOf(q, c) == CHOOSE i \in 1..Len(q) : q[i] = c

TAILQ_NEXT(q, c) == IF IndexOf(q, c) = Len(q) THEN NULL ELSE q[IndexOf(q, c) + 1]

TAILQ_INSERT_TAIL(q, c) == Append(q, c)

\* A removal that leaves the element linked.
TAILQ_REMOVE_Kept(q, c) == q

\* A removal that unlinks the first element, whichever was asked for.
TAILQ_REMOVE_Head(q, c) == IF q = <<>> THEN q ELSE Tail(q)

TAILQ_REMOVE(q, c) == SelectSeq(q, LAMBDA x : x # c)

\* The registry and what it refers to: the queue, the live client_t
\* objects, their sockets, the started watchers and the open sockets.
Registry ==
    [tailq |-> client_tailq_head, allocated |-> allocated, socketd |-> socketd,
     io_active |-> io_active, sock_open |-> sock_open]

NoEntry == [tailq |-> <<>>, allocated |-> {}, socketd |-> <<>>, io_active |-> {},
            sock_open |-> {}]

\* The bytes pending on socket s and the state of its remote end.
SockView(s) == [inbuf |-> inbuf[s], remote |-> remote[s]]

NoSock == [inbuf |-> <<>>, remote |-> "none"]

\* The state before main's first statement.
Boot ==
    /\ pc = "socket"
    /\ listen_socket = "none"
    /\ listen_nonblock = FALSE
    /\ listen_reuseaddr = FALSE
    /\ listen_bound = FALSE
    /\ listening = FALSE
    /\ w_accept_active = FALSE
    /\ client_tailq_head = <<>>
    /\ allocated = {}
    /\ freed = {}
    /\ socketd = [c \in Clients |-> INVALID_SOCKET]
    /\ io_active = {}
    /\ sock_open = {}
    /\ sock_nonblock = {}
    /\ fionbio = {}
    /\ closes = [s \in Socks |-> 0]
    /\ nconn = 0
    /\ naccepted = 0
    /\ remote = [s \in Socks |-> "open"]
    /\ inbuf = [s \in Socks |-> <<>>]
    /\ nsent = 0
    /\ rd = [s \in Socks |-> <<>>]
    /\ handed = [s \in Socks |-> <<>>]
    /\ delivered = [s \in Socks |-> <<>>]
    /\ joined = [c \in Clients |-> [s \in Socks |-> 0]]
    /\ revents = {}
    /\ client_socket = INVALID_SOCKET
    /\ acc_client = NULL
    /\ this_client = NULL
    /\ client = NULL
    /\ buffer = <<>>
    /\ read = 0
    /\ wsa_error = "none"
    /\ targets = <<>>
    /\ entry = NoEntry
    /\ entry_sock = NoSock

\* Runs with a bounded number of bytes, all recorded.
Init == Boot /\ recording = TRUE

\* Runs in which the remote ends write without bound and nothing is recorded.
InitFlood == Boot /\ recording = FALSE

\* ---- main ----
\* A bootstrap that goes on to the next call whether the call failed or not.
MainStep_IgnoreFailure(at, next) ==
    /\ pc = at
    /\ \E ok \in BOOLEAN :
        /\ pc' = next
        /\ listen_socket' = IF at = "socket" /\ ok THEN "open" ELSE listen_socket
        /\ listen_nonblock' = IF at = "ioctlsocket" /\ ok THEN TRUE ELSE listen_nonblock
        /\ listen_reuseaddr' = IF at = "setsockopt" /\ ok THEN TRUE ELSE listen_reuseaddr
        /\ listen_bound' = IF at = "bind" /\ ok THEN TRUE ELSE listen_bound
        /\ listening' = IF at = "listen" /\ ok THEN TRUE ELSE listening
    /\ UNCHANGED <<sock_open, sock_nonblock, fionbio, closes, w_accept_active, regvars,
                   naccepted, netvars, histvars, acceptlocals, readlocals, entry,
                   entry_sock, recording, wsa_error>>

\* One bootstrap call of main: on failure main returns EXIT_FAILURE.
MainStep(at, next) ==
    /\ pc = at
    /\ \E ok \in BOOLEAN :
        /\ pc' = IF ok THEN next ELSE "exit_failure"
        /\ listen_socket' = IF at = "socket" /\ ok THEN "open" ELSE listen_socket
        /\ listen_nonblock' = IF at = "ioctlsocket" /\ ok THEN TRUE ELSE listen_nonblock
        /\ listen_reuseaddr' = IF at = "setsockopt" /\ ok THEN TRUE ELSE listen_reuseaddr
        /\ listen_bound' = IF at = "bind" /\ ok THEN TRUE ELSE listen_bound
        /\ listening' = IF at = "listen" /\ ok THEN TRUE ELSE listening
    /\ UNCHANGED <<sock_open, sock_nonblock, fionbio, closes, w_accept_active, regvars,
                   naccepted, netvars, histvars, acceptlocals, readlocals, entry, entry_sock, recording, wsa_error>>

MainSocket == MainStep("socket", "ioctlsocket")
MainIoctlsocket == MainStep("ioctlsocket", "setsockopt")
MainSetsockopt == MainStep("setsockopt", "bind")
MainBind == MainStep("bind", "listen")
MainListen == MainStep("listen", "ev_io_start")

\* ev_io_init and ev_io_start of w_accept, then main enters ev_loop.
MainStartWatcher ==
    /\ pc = "ev_io_start"
    /\ w_accept_active' = TRUE
    /\ pc' = "ev_loop"
    /\ UNCHANGED <<sockvars, regvars, naccepted, netvars, histvars, acceptlocals,
                   readlocals, entry, entry_sock, recording, wsa_error>>

\* ---- the environment: remote clients and the kernel ----
Pending == (naccepted + 1)..nconn

Connect ==
    /\ listening
    /\ nconn < MaxConns
    /\ Cardinality(Pending) < BACKLOG
    /\ nconn' = nconn + 1
    /\ UNCHANGED <<pc, sockvars, w_accept_active, regvars, naccepted, remote, inbuf,
                   nsent, histvars, acceptlocals, readlocals, entry, entry_sock, recording, wsa_error>>

\* The k-th byte the remote side writes has the value k, so that every byte
\* in flight is told apart from every other.  In a run that records nothing
\* the bytes are not counted and all have the value 0.
ClientSend(s) ==
    /\ s \in 1..nconn
    /\ remote[s] = "open"
    /\ closes[s] = 0
    /\ IF recording THEN nsent < MaxSent ELSE Len(inbuf[s]) < MaxPending
    /\ inbuf' = [inbuf EXCEPT ![s] = Append(@, IF recording THEN nsent + 1 ELSE 0)]
    /\ nsent' = IF recording THEN nsent + 1 ELSE nsent
    /\ UNCHANGED <<pc, sockvars, w_accept_active, regvars, naccepted, nconn, remote,
                   histvars, acceptlocals, readlocals, entry, entry_sock, recording, wsa_error>>

\* The remote end closes: recv returns 0 once the pending bytes are read.
ClientClose(s) ==
    /\ s \in 1..nconn
    /\ remote[s] = "open"
    /\ closes[s] = 0
    /\ remote' = [remote EXCEPT ![s] = "closed"]
    /\ UNCHANGED <<pc, sockvars, w_accept_active, regvars, naccepted, nconn, inbuf,
                   nsent, histvars, acceptlocals, readlocals, entry, entry_sock, recording, wsa_error>>

\* The connection is reset: pending bytes are discarded and recv fails.
ClientReset(s) ==
    /\ s \in 1..nconn
    /\ remote[s] = "open"
    /\ closes[s] = 0
    /\ remote' = [remote EXCEPT ![s] = "reset"]
    /\ inbuf' = [inbuf EXCEPT ![s] = <<>>]
    /\ UNCHANGED <<pc, sockvars, w_accept_active, regvars, naccepted, nconn,
                   nsent, histvars, acceptlocals, readlocals, entry, entry_sock, recording, wsa_error>>

\* ---- accept_cb ----
Min(a, b) == IF a < b THEN a ELSE b

\* ev_loop invokes accept_cb for the started watcher of the listening socket.
\* A notification may be spurious, and may carry EV_ERROR.
AcceptDispatch ==
    /\ pc = "ev_loop"
    /\ w_accept_active
    /\ \E rev \in {{"EV_READ"}, {"EV_ERROR"}} : revents' = rev
    /\ pc' = "accept_cb"
    /\ entry' = Registry
    /\ entry_sock' = NoSock
    /\ UNCHANGED <<sockvars, w_accept_active, regvars, naccepted, netvars, histvars,
                   wsa_error, client_socket, acc_client, readlocals, recording>>

\* if (EV_ERROR & revents)
GotInvalidEvent(rev) == "EV_ERROR" \in rev

\* An accept path without the test of line 203.
AcceptFailed_NoTest(sock) == FALSE

\* if (INVALID_SOCKET == client_socket)
AcceptFailed(sock) == sock = INVALID_SOCKET

\* The mode of a socket returned by accept(): Winsock gives the new socket
\* the properties of the listening socket; accept_cb does not change it.
AcceptedNonblock(s) == IF listen_nonblock THEN {s} ELSE {}

\* The outcomes accept (w->socketd, ...) can have: <<socket, error>>.  With
\* nothing pending the non-blocking listening socket gives WSAEWOULDBLOCK; a
\* pending connection is returned, or accept fails for lack of resources.
AcceptOutcomes ==
    IF Pending = {}
    THEN {<<INVALID_SOCKET, "WSAEWOULDBLOCK">>}
    ELSE {<<naccepted + 1, wsa_error>>, <<INVALID_SOCKET, "WSAENOBUFS">>}

\* Lines 193-206: the EV_ERROR test and the accept() call.
AcceptCall ==
    /\ pc = "accept_cb"
    /\ IF GotInvalidEvent(revents)
       THEN /\ pc' = "accept_return"
            /\ UNCHANGED <<client_socket, naccepted, sock_open, sock_nonblock, wsa_error>>
       ELSE \E o \in AcceptOutcomes :
            /\ client_socket' = o[1]
            /\ wsa_error' = o[2]
            /\ pc' = IF AcceptFailed(o[1]) THEN "accept_return" ELSE "calloc"
            /\ naccepted' = IF o[1] \in Socks THEN naccepted + 1 ELSE naccepted
            /\ sock_open' = sock_open \cup (Socks \cap {o[1]})
            /\ sock_nonblock' = sock_nonblock \cup (Socks \cap AcceptedNonblock(o[1]))
    /\ UNCHANGED <<listen_socket, listen_nonblock, listen_reuseaddr, listen_bound,
                   listening, fionbio, closes, w_accept_active, regvars, netvars,
                   histvars, revents, acc_client, readlocals, entry, entry_sock, recording>>

\* The values calloc (1, sizeof (*client)) can return: NULL, or an object
\* that is not one in use; the model never hands out an identity twice.
CallocResults ==
    LET unused == Clients \ (allocated \cup freed) IN
    {NULL} \cup {c \in unused : \A d \in unused : c <= d}

\* Lines 209-222: calloc, the NULL test, client->socketd and ev_io_init.
AcceptCalloc ==
    /\ pc = "calloc"
    /\ \E p \in CallocResults :
        /\ acc_client' = p
        /\ IF p = NULL
           THEN /\ pc' = "accept_return"
                /\ UNCHANGED <<allocated, socketd>>
           ELSE /\ pc' = "TAILQ_INSERT_TAIL"
                /\ allocated' = allocated \cup {p}
                /\ socketd' = [socketd EXCEPT ![p] = client_socket]
    /\ UNCHANGED <<sockvars, w_accept_active, client_tailq_head, freed, io_active,
                   joined, naccepted, netvars, histvars, revents, client_socket,
                   readlocals, entry, entry_sock, recording, wsa_error>>

\* Line 225.
AcceptInsert ==
    /\ pc = "TAILQ_INSERT_TAIL"
    /\ client_tailq_head' = TAILQ_INSERT_TAIL(client_tailq_head, acc_client)
    /\ joined' = [joined EXCEPT ![acc_client] = [s \in Socks |-> Len(rd[s])]]
    /\ pc' = "client_ev_io_start"
    /\ UNCHANGED <<sockvars, w_accept_active, allocated, freed, socketd, io_active,
                   naccepted, netvars, histvars, acceptlocals, readlocals, entry, entry_sock, recording, wsa_error>>

\* An accept path that does not start the watcher.
ClientWatcherStarted_Not(active, c) == active

\* ev_io_start (loop, &client->io)
ClientWatcherStarted(active, c) == active \cup {c}

\* Line 227.
AcceptStart ==
    /\ pc = "client_ev_io_start"
    /\ io_active' = ClientWatcherStarted(io_active, acc_client)
    /\ pc' = "accept_return"
    /\ UNCHANGED <<sockvars, w_accept_active, client_tailq_head, allocated, freed,
                   socketd, joined, naccepted, netvars, histvars, acceptlocals,
                   readlocals, entry, entry_sock, recording, wsa_error>>

\* accept_cb returns to ev_loop; its locals die.  So does the last error: the
\* program reads WSAGetLastError() only right after a call that has just
\* failed and set it.
AcceptReturn ==
    /\ pc = "accept_return"
    /\ pc' = "ev_loop"
    /\ wsa_error' = "none"
    /\ revents' = {}
    /\ client_socket' = INVALID_SOCKET
    /\ acc_client' = NULL
    /\ entry' = NoEntry
    /\ entry_sock' = NoSock
    /\ UNCHANGED <<sockvars, w_accept_active, regvars, naccepted, netvars, histvars,
                   readlocals, recording>>

\* ---- read_cb ----
\* A loop that invokes read_cb also while a traversal of read_cb is executing.
ReadDispatch_Nested(c) ==
    /\ pc \in {"ev_loop", "foreach"}
    /\ c \in io_active
    /\ this_client' = c
    /\ pc' = "recv"
    /\ entry' = Registry
    /\ entry_sock' = SockView(socketd[c])
    /\ UNCHANGED <<sockvars, w_accept_active, regvars, naccepted, netvars, histvars,
                   wsa_error, acceptlocals, client, buffer, read, targets, recording>>

\* ev_loop invokes read_cb for a started client watcher; a notification may
\* be spurious (nothing to read).
ReadDispatch(c) ==
    /\ pc = "ev_loop"
    /\ c \in io_active
    /\ this_client' = c
    /\ pc' = "recv"
    /\ entry' = Registry
    /\ entry_sock' = SockView(socketd[c])
    /\ UNCHANGED <<sockvars, w_accept_active, regvars, naccepted, netvars, histvars,
                   wsa_error, acceptlocals, client, buffer, read, targets, recording>>

\* A loop that breaks on every failed recv, whatever the error.
ReadBranch_BreakOnAnyError(n, err) ==
    IF n < 0 THEN "break"
    ELSE IF n <= 0 THEN "teardown"
    ELSE "broadcast"

\* A loop without the would-block test: every failed recv tears down.
ReadBranch_NoWouldBlockTest(n, err) ==
    IF n <= 0 THEN "teardown" ELSE "broadcast"

\* A loop that tears down only on a failed recv: a recv of 0 is broadcast.
ReadBranch_ZeroIsData(n, err) ==
    IF n < 0 /\ err = "WSAEWOULDBLOCK" THEN "break"
    ELSE IF n < 0 THEN "teardown"
    ELSE "broadcast"

\* Lines 149-167: what read_cb does with the result of recv.
ReadBranch(n, err) ==
    IF n < 0 /\ err = "WSAEWOULDBLOCK" THEN "break"
    ELSE IF n <= 0 THEN "teardown"
    ELSE "broadcast"

\* The outcomes recv (s, buffer, _countof (buffer), 0) can have:
\* <<return value, bytes stored in buffer, WSAGetLastError()>>.
RecvOutcomes(s) ==
    IF s \notin sock_open THEN {<<-1, <<>>, "WSAENOTSOCK">>}
    ELSE IF remote[s] = "reset" THEN {<<-1, <<>>, "WSAECONNRESET">>}
    ELSE IF inbuf[s] # <<>>
         THEN {<<n, SubSeq(inbuf[s], 1, n), wsa_error>> :
                   n \in 1..Min(Len(inbuf[s]), ChunkSize)}
    ELSE IF remote[s] = "closed" THEN {<<0, <<>>, wsa_error>>}
    ELSE IF s \in sock_nonblock THEN {<<-1, <<>>, "WSAEWOULDBLOCK">>}
    ELSE {}

\* A recv that stores what it reads behind what buffer already holds.
Filled_Append(buf, bytes) == buf \o bytes

\* recv stores the bytes it returns at the start of buffer: what an earlier
\* recv left there is no longer among the first `read` bytes.
Filled(buf, bytes) == bytes

\* Lines 144-167 and the head of TAILQ_FOREACH: recv and the tests on read.
Recv ==
    /\ pc = "recv"
    /\ LET s == socketd[this_client] IN
       \E o \in RecvOutcomes(s) :
        /\ read' = o[1]
        /\ buffer' = Filled(buffer, o[2])
        /\ wsa_error' = o[3]
        /\ inbuf' = IF o[1] > 0
                    THEN [inbuf EXCEPT ![s] = SubSeq(@, o[1] + 1, Len(@))]
                    ELSE inbuf
        /\ rd' = IF o[1] > 0 /\ recording THEN [rd EXCEPT ![s] = @ \o o[2]] ELSE rd
        /\ pc' = CASE ReadBranch(o[1], o[3]) = "break" -> "read_return"
                   [] ReadBranch(o[1], o[3]) = "teardown" -> "ev_io_stop"
                   [] OTHER -> "foreach"
        /\ client' = IF ReadBranch(o[1], o[3]) = "broadcast"
                     THEN TAILQ_FIRST(client_tailq_head)
                     ELSE client
        /\ targets' = IF ReadBranch(o[1], o[3]) = "broadcast" THEN <<>> ELSE targets
    /\ UNCHANGED <<sockvars, w_accept_active, regvars, naccepted, nconn, remote, nsent,
                   handed, delivered, acceptlocals, this_client, entry, entry_sock, recording>>

\* A traversal without the test of line 171.
IsRecipient_NoTest(c, sender) == TRUE

\* A traversal with the test of line 171 inverted: the sender alone is served.
IsRecipient_Inverted(c, sender) == c = sender

\* if (client != this_client)
IsRecipient(c, sender) == c # sender

\* A send that passes one byte less than was read.
Chunk_Short(buf, n) == SubSeq(buf, 1, n - 1)

\* The bytes read_cb passes to send: the first `n` bytes of buffer.
Chunk(buf, n) == SubSeq(buf, 1, n)

\* Tag each byte of a chunk with the socket it was read from.
From(s, bytes) == [i \in 1..Len(bytes) |-> <<s, bytes[i]>>]

\* The return values send (t, buffer, n, 0) can have: SOCKET_ERROR, or the
\* number of bytes the transport took, which may be less than n.
SendResults(t, n) == IF t \in sock_open THEN {-1} \cup 1..n ELSE {-1}

\* WSAGetLastError() after send (t, ...) returned k.
SendError(t, k) ==
    IF k >= 0 THEN wsa_error
    ELSE IF t \notin sock_open THEN "WSAENOTSOCK"
    ELSE IF remote[t] = "open" THEN "WSAEWOULDBLOCK"
    ELSE "WSAECONNRESET"

\* A traversal that stops at the first failed send.
AfterSend_StopOnError(q, c, k) == IF k < 0 THEN NULL ELSE TAILQ_NEXT(q, c)

\* Lines 172-176: the value k that send returned is not looked at, and
\* TAILQ_FOREACH moves to TAILQ_NEXT (client, entries).
AfterSend(q, c, k) == TAILQ_NEXT(q, c)

\* Lines 171-176 for a client other than this_client: one send, whose
\* return value is ignored, then the traversal moves on.
ForeachSend ==
    /\ pc = "foreach"
    /\ client # NULL
    /\ IsRecipient(client, this_client)
    /\ LET t == socketd[client]
           chunk == From(socketd[this_client], Chunk(buffer, read)) IN
       \E k \in SendResults(t, read) :
        /\ targets' = Append(targets, <<client, k>>)
        /\ handed' = IF recording THEN [handed EXCEPT ![t] = @ \o chunk] ELSE handed
        /\ delivered' = IF k > 0 /\ remote[t] = "open" /\ recording
                        THEN [delivered EXCEPT ![t] = @ \o SubSeq(chunk, 1, k)]
                        ELSE delivered
        /\ wsa_error' = SendError(t, k)
        /\ client' = AfterSend(client_tailq_head, client, k)
    /\ UNCHANGED <<pc, sockvars, w_accept_active, regvars, naccepted, netvars, rd,
                   acceptlocals, this_client, buffer, read, entry, entry_sock, recording>>

\* Line 171 for this_client itself: nothing is sent.
ForeachSkip ==
    /\ pc = "foreach"
    /\ client # NULL
    /\ ~IsRecipient(client, this_client)
    /\ client' = TAILQ_NEXT(client_tailq_head, client)
    /\ UNCHANGED <<pc, sockvars, w_accept_active, regvars, naccepted, netvars, histvars,
                   wsa_error, acceptlocals, this_client, buffer, read, targets, entry, entry_sock, recording>>

\* A read_cb that reads one chunk for each invocation.
AfterBroadcast_Return == "read_return"

\* for (;;): after the traversal read_cb calls recv again.
AfterBroadcast == "recv"

\* The traversal is over: back to the head of for (;;).
ForeachDone ==
    /\ pc = "foreach"
    /\ client = NULL
    /\ pc' = AfterBroadcast
    /\ UNCHANGED <<sockvars, w_accept_active, regvars, naccepted, netvars, histvars,
                   acceptlocals, readlocals, entry, entry_sock, recording, wsa_error>>

\* A teardown that leaves the watcher started.
ClientWatcherStopped_Not(active, c) == active

\* ev_io_stop (loop, &this_client->io)
ClientWatcherStopped(active, c) == active \ {c}

\* Line 157.
TeardownStop ==
    /\ pc = "ev_io_stop"
    /\ io_active' = ClientWatcherStopped(io_active, this_client)
    /\ pc' = "TAILQ_REMOVE"
    /\ UNCHANGED <<sockvars, w_accept_active, client_tailq_head, allocated, freed,
                   socketd, joined, naccepted, netvars, histvars, acceptlocals,
                   readlocals, entry, entry_sock, recording, wsa_error>>

\* Lines 160-162.
TeardownRemove ==
    /\ pc = "TAILQ_REMOVE"
    /\ client_tailq_head' = TAILQ_REMOVE(client_tailq_head, this_client)
    /\ pc' = "closesocket"
    /\ UNCHANGED <<sockvars, w_accept_active, allocated, freed, socketd, io_active,
                   joined, naccepted, netvars, histvars, acceptlocals, readlocals,
                   entry, entry_sock, recording, wsa_error>>

\* closesocket (s)
SocketClosed(open, s) == open \ {s}

\* Line 164.  With the socket closed the connection is gone for both ends.
TeardownClose ==
    /\ pc = "closesocket"
    /\ sock_open' = SocketClosed(sock_open, socketd[this_client])
    /\ closes' = [closes EXCEPT ![socketd[this_client]] = @ + 1]
    /\ remote' = [remote EXCEPT ![socketd[this_client]] = "gone"]
    /\ inbuf' = [inbuf EXCEPT ![socketd[this_client]] = <<>>]
    /\ pc' = "free"
    /\ UNCHANGED <<listen_socket, listen_nonblock, listen_reuseaddr, listen_bound,
                   listening, sock_nonblock, fionbio, w_accept_active, regvars,
                   naccepted, nconn, nsent, histvars, acceptlocals, readlocals, entry, entry_sock, recording,
                   wsa_error>>

\* Lines 165-166: free (this_client); return.
TeardownFree ==
    /\ pc = "free"
    /\ allocated' = allocated \ {this_client}
    /\ freed' = freed \cup {this_client}
    /\ pc' = "read_return"
    /\ UNCHANGED <<sockvars, w_accept_active, client_tailq_head, socketd, io_active,
                   joined, naccepted, netvars, histvars, acceptlocals, readlocals,
                   entry, entry_sock, recording, wsa_error>>

\* read_cb returns to ev_loop; its locals and the last error die.
ReadReturn ==
    /\ pc = "read_return"
    /\ pc' = "ev_loop"
    /\ this_client' = NULL
    /\ client' = NULL
    /\ buffer' = <<>>
    /\ read' = 0
    /\ wsa_error' = "none"
    /\ targets' = <<>>
    /\ entry' = NoEntry
    /\ entry_sock' = NoSock
    /\ UNCHANGED <<sockvars, w_accept_active, regvars, naccepted, netvars, histvars,
                   acceptlocals, recording>>

\* ---- the program and its environment ----
Environment ==
    \/ Connect
    \/ \E s \in Socks : ClientSend(s)
    \/ \E s \in Socks : ClientClose(s)
    \/ \E s \in Socks : ClientReset(s)

Main ==
    \/ MainSocket
    \/ MainIoctlsocket
    \/ MainSetsockopt
    \/ MainBind
    \/ MainListen
    \/ MainStartWatcher

accept_cb ==
    \/ AcceptDispatch
    \/ AcceptCall
    \/ AcceptCalloc
    \/ AcceptInsert
    \/ AcceptStart
    \/ AcceptReturn

read_cb ==
    \/ \E c \in Clients : ReadDispatch(c)
    \/ Recv
    \/ ForeachSend
    \/ ForeachSkip
    \/ ForeachDone
    \/ TeardownStop
    \/ TeardownRemove
    \/ TeardownClose
    \/ TeardownFree
    \/ ReadReturn

Next == Main \/ accept_cb \/ read_cb \/ Environment

Spec == Init /\ [][Next]_vars

\* ---- vocabulary of the properties ----
\* No callback is executing: the thread is blocked in ev_loop.
Quiescent == pc = "ev_loop"

Registered == Range(client_tailq_head)

\* The clients other than c, in queue order.
Others(q, c) == SelectSeq(q, LAMBDA x : x # c)

\* The clients that were handed the current chunk, in the order of the sends.
Recipients == [i \in 1..Len(targets) |-> targets[i][1]]

\* The traversal of the current chunk has visited every client.
BroadcastDone == pc = "foreach" /\ client = NULL

NoDuplicates(q) == \A i, j \in 1..Len(q) : q[i] = q[j] => i = j

\* C1 (broadcast exclusion): when the traversal for a chunk that read_cb read
\* from this_client is over, send() was called once for every other client
\* in the queue, in queue order, and at no point of the traversal was it
\* called for this_client itself.
C1_BroadcastExclusion ==
    /\ pc = "foreach" =>
        /\ read > 0
        /\ \A i \in 1..Len(targets) : targets[i][1] # this_client
        /\ NoDuplicates(Recipients)
    /\ BroadcastDone => Recipients = Others(client_tailq_head, this_client)

\* A chunk read from one of three registered peers went to both others.
C1_Witness ==
    /\ BroadcastDone
    /\ Len(client_tailq_head) = 3
    /\ Len(targets) = 2
    /\ this_client = client_tailq_head[2]

\* C3 (registry invariant): at every quiescent point a client is in the tail
\* queue if and only if its socket is open and its read watcher is started,
\* and no client is in the queue twice.
C3_RegistryInvariant ==
    Quiescent =>
        /\ \A c \in Clients :
            c \in Registered <=> (socketd[c] \in sock_open /\ c \in io_active)
        /\ NoDuplicates(client_tailq_head)

\* A quiescent point with two registered peers after a third was torn down.
C3_Witness ==
    /\ Quiescent
    /\ Len(client_tailq_head) = 2
    /\ freed # {}

\* The bytes among `log` (a handed or delivered log) that came from socket s.
BytesFrom(log, s) ==
    LET own == SelectSeq(log, LAMBDA e : e[1] = s) IN
    [i \in 1..Len(own) |-> own[i][2]]

\* The chunk in `buffer` is still to be handed to client r in this traversal.
StillToHand(r) ==
    /\ pc = "foreach"
    /\ r # this_client
    /\ \A i \in 1..Len(targets) : targets[i][1] # r

\* The bytes read from socket s since client r was inserted, less the chunk
\* the running traversal has not handed to r yet.
ReadSinceJoined(r, s) ==
    LET upto == IF this_client # NULL /\ socketd[this_client] = s /\ StillToHand(r)
                THEN Len(rd[s]) - read
                ELSE Len(rd[s]) IN
    SubSeq(rd[s], joined[r][s] + 1, upto)

RECURSIVE IsSubsequence(_, _)
IsSubsequence(a, b) ==
    IF a = <<>> THEN TRUE
    ELSE IF b = <<>> THEN FALSE
    ELSE IF Head(a) = Head(b) THEN IsSubsequence(Tail(a), Tail(b))
    ELSE IsSubsequence(a, Tail(b))

\* C2 as stated (byte fidelity of what is delivered): at a quiescent point,
\* for a sender P whose written bytes were all read and a peer R that was
\* registered before any of them was read and whose connection is still
\* open, the bytes delivered to R from P are the bytes P wrote.
C2_DeliveredEqualsSent ==
    Quiescent =>
        \A p, r \in Registered :
            (/\ p # r
             /\ joined[r][socketd[p]] = 0
             /\ inbuf[socketd[p]] = <<>>
             /\ remote[socketd[r]] = "open")
            => BytesFrom(delivered[socketd[r]], socketd[p]) = rd[socketd[p]]

\* C2 (byte fidelity, amended): for every registered peer R and every other
\* socket s, the bytes handed to send() for R that came from s are exactly
\* the bytes read from s since R was inserted, in order; the bytes that
\* reach R are a subsequence of the bytes handed to send() for it.
C2_ByteFidelity ==
    /\ \A r \in Registered : \A s \in Socks \ {socketd[r]} :
        BytesFrom(handed[socketd[r]], s) = ReadSinceJoined(r, s)
    /\ \A t \in Socks :
        /\ BytesFrom(handed[t], t) = <<>>
        /\ IsSubsequence(delivered[t], handed[t])

\* Two bytes of one sender were handed to a registered peer in order, and
\* only one of them reached it.
C2_Witness ==
    \E p, r \in Registered :
        /\ p # r
        /\ Len(BytesFrom(handed[socketd[r]], socketd[p])) = 2
        /\ Len(delivered[socketd[r]]) = 1

InTeardown == pc \in {"ev_io_stop", "TAILQ_REMOVE", "closesocket", "free"}

\* C4 (no use after teardown): a client that was freed is never the client
\* read_cb runs for, never the client the traversal is at, and never a
\* recipient of a chunk; the client a send is about to go to is registered,
\* allocated and has its socket open; nothing is handed to a closed socket.
C4_NoUseAfterTeardown ==
    /\ pc \in {"recv", "foreach", "ev_io_stop"} =>
        /\ this_client \in allocated \ freed
        /\ socketd[this_client] \in sock_open
    /\ (pc = "foreach" /\ client # NULL) =>
        /\ client \in Registered
        /\ client \in allocated \ freed
        /\ socketd[client] \in sock_open
    /\ pc = "foreach" => \A i \in 1..Len(targets) : targets[i][1] \in allocated \ freed
    /\ \A c \in freed :
        /\ c \notin Registered
        /\ c \notin io_active
        /\ socketd[c] \notin sock_open

\* With one of three peers torn down, a chunk of another is about to be sent
\* to the third.
C4_Witness ==
    /\ pc = "foreach"
    /\ client # NULL
    /\ client # this_client
    /\ freed # {}
    /\ Len(client_tailq_head) = 2

\* recv returned 0, or failed with an error other than would-block.
TerminalRead == read = 0 \/ (read < 0 /\ wsa_error # "WSAEWOULDBLOCK")

WouldBlockRead == read < 0 /\ wsa_error = "WSAEWOULDBLOCK"

\* this_client went through the whole teardown, once.
TornDown(c) ==
    /\ c \notin io_active
    /\ c \notin Registered
    /\ socketd[c] \notin sock_open
    /\ closes[socketd[c]] = 1
    /\ c \in freed
    /\ c \notin allocated

\* The states of C5: where read_cb stands for each result of recv.
C5_TeardownState ==
    /\ InTeardown => TerminalRead /\ this_client \in allocated \ freed
    /\ pc = "foreach" => read > 0
    /\ pc = "read_return" =>
        /\ TerminalRead \/ WouldBlockRead
        /\ TerminalRead => TornDown(this_client)
    /\ \A s \in Socks : closes[s] <= 1
    /\ \A c \in freed : c \notin allocated /\ closes[socketd[c]] = 1

\* The steps of C5: a teardown runs straight to the return.
C5_TeardownStep ==
    InTeardown =>
        /\ pc' \in {pc, "TAILQ_REMOVE", "closesocket", "free", "read_return"}
        /\ UNCHANGED <<rd, handed, delivered, this_client, read>>

\* C5 (teardown on terminal read): read_cb is in its teardown exactly when
\* its recv returned 0 or failed with an error other than would-block; it
\* then returns with the watcher stopped, the client out of the queue, the
\* socket closed and the client freed, having read and handed on nothing
\* after that recv; no socket is closed twice, and every freed client went
\* through the whole teardown.
C5_TeardownOnTerminalRead == []C5_TeardownState /\ [][C5_TeardownStep]_vars

\* read_cb returns from a teardown caused by a reset connection, after
\* another peer was torn down.
C5_Witness ==
    /\ pc = "read_return"
    /\ read < 0
    /\ wsa_error = "WSAECONNRESET"
    /\ TornDown(this_client)
    /\ Cardinality(freed) = 2

\* C6 (would-block is a clean exit): when read_cb returns because recv
\* failed with would-block, the registry is as it was when the callback was
\* entered, and this_client is still allocated and registered, with its
\* socket open and its read watcher started, so that ev_loop can invoke
\* read_cb for it again.
C6_WouldBlockCleanExit ==
    (pc = "read_return" /\ WouldBlockRead) =>
        /\ Registry = entry
        /\ this_client \in Registered
        /\ this_client \in allocated \ freed
        /\ socketd[this_client] \in sock_open
        /\ this_client \in io_active

\* read_cb returns on would-block after it has broadcast a chunk.
C6_Witness ==
    /\ pc = "read_return"
    /\ WouldBlockRead
    /\ rd[socketd[this_client]] # <<>>
    /\ Len(client_tailq_head) >= 2

\* accept_cb is returning from an invocation whose accept() gave a socket.
AcceptSucceeded ==
    /\ pc = "accept_return"
    /\ ~GotInvalidEvent(revents)
    /\ client_socket # INVALID_SOCKET

\* The registry grew by exactly the client c, which wraps socket s and has
\* its read watcher started; every other client is as it was.
GrewByOne(c, s) ==
    /\ c \notin entry.allocated
    /\ client_tailq_head = Append(entry.tailq, c)
    /\ allocated = entry.allocated \cup {c}
    /\ io_active = entry.io_active \cup {c}
    /\ sock_open = entry.sock_open \cup {s}
    /\ socketd = [entry.socketd EXCEPT ![c] = s]

\* C7 as stated: every accept_cb invocation in which accept() returned a
\* valid socket ends with the registry grown by exactly one peer that wraps
\* that socket and has its read watcher started.
C7_OnePeerPerAccept ==
    AcceptSucceeded =>
        \E c \in Clients : GrewByOne(c, client_socket)

\* C7 (amended): such an invocation ends with the registry grown by exactly
\* one peer that wraps the accepted socket and has its read watcher started
\* if calloc returned an object; if calloc returned NULL it ends with the
\* queue, the clients and the watchers as they were and no client wrapping
\* the accepted socket.
C7_OnePeerPerAllocatedAccept ==
    AcceptSucceeded =>
        IF acc_client # NULL
        THEN GrewByOne(acc_client, client_socket)
        ELSE /\ client_tailq_head = entry.tailq
             /\ allocated = entry.allocated
             /\ io_active = entry.io_active
             /\ socketd = entry.socketd
             /\ \A c \in allocated : socketd[c] # client_socket

\* accept_cb returns having added a third peer to the registry.
C7_Witness ==
    /\ AcceptSucceeded
    /\ acc_client # NULL
    /\ Len(client_tailq_head) = 3

\* accept_cb is returning from an invocation that got EV_ERROR or whose
\* accept() failed.
AcceptDidFail ==
    /\ pc = "accept_return"
    /\ GotInvalidEvent(revents) \/ client_socket = INVALID_SOCKET

\* The states of C8: the return of a failed accept_cb, and the listener.
C8_FailedAcceptState ==
    /\ AcceptDidFail =>
        /\ Registry = entry
        /\ acc_client = NULL
    /\ pc \in {"ev_loop", "accept_cb", "accept_return"} =>
        /\ w_accept_active
        /\ listen_socket = "open"
        /\ listening

\* The steps of C8: nothing stops the listener or closes its socket.
C8_ListenerStep == w_accept_active => w_accept_active' /\ listen_socket' = "open"

\* C8 (a failed accept has no side effects): when accept_cb returns after
\* EV_ERROR or a failed accept(), the registry and every client are as they
\* were when it was entered, no client object was created, and the listening
\* socket is open, listening, with its watcher started; the watcher, once
\* started, is started in every later state.
C8_FailedAcceptNoSideEffects == []C8_FailedAcceptState /\ [][C8_ListenerStep]_vars

\* accept_cb returns from a failed accept() with two peers registered.
C8_Witness ==
    /\ AcceptDidFail
    /\ ~GotInvalidEvent(revents)
    /\ Len(client_tailq_head) = 2

\* C9 as stated: every client in the registry has a socket on which the
\* accept path set non-blocking mode with ioctlsocket(FIONBIO), as main did
\* on the listening socket.
C9_AcceptPathSetsNonblocking ==
    /\ w_accept_active => listen_nonblock
    /\ \A c \in Registered : socketd[c] \in fionbio

\* A send that failed or took less than the chunk.
Failed(i) == targets[i][2] < read

\* The states of C10: the traversal and the recv that follows it.
C10_SendFailureState ==
    /\ pc = "foreach" =>
        LET others == Others(client_tailq_head, this_client)
            rest == IF client = NULL THEN <<>>
                    ELSE SubSeq(client_tailq_head, IndexOf(client_tailq_head, client),
                                Len(client_tailq_head)) IN
        /\ Recipients \o Others(rest, this_client) = others
        /\ Registry = entry
        /\ this_client \in Registered \cap io_active
    /\ (pc = "recv" /\ \E i \in 1..Len(targets) : Failed(i)) =>
        /\ Recipients = Others(client_tailq_head, this_client)
        /\ Registry = entry
        /\ this_client \in Registered \cap io_active
        /\ \A i \in 1..Len(targets) : targets[i][1] \in Registered \cap io_active

\* The steps of C10: the traversal is left only for the next recv.
C10_SendFailureStep == pc = "foreach" => pc' \in {"foreach", "recv"}

\* C10 (send-failure isolation): whatever the sends of a traversal returned,
\* the traversal has handed the chunk once to each of the other clients up to
\* the cursor, in queue order, and stands at the client after the last one
\* served; the registry is as it was on entry, so no recipient was removed;
\* the sender is registered with its watcher started; and read_cb leaves the
\* traversal only to its next recv, returning only on what that recv says.
C10_SendFailureIsolation == []C10_SendFailureState /\ [][C10_SendFailureStep]_vars

\* The send to the first of two recipients failed, the second was served,
\* and read_cb is at its next recv.
C10_Witness ==
    /\ pc = "recv"
    /\ Len(targets) = 2
    /\ targets[1][2] = -1
    /\ targets[2][2] = read

\* read_cb went, or is going, through the teardown of this_client.
TearingDown == InTeardown \/ (pc = "read_return" /\ TerminalRead)

\* C11 (teardown affects only that peer): while read_cb tears this_client
\* down and when it returns from the teardown, every other client that was
\* registered on entry is still in the queue, allocated, with its socket open
\* and its watcher started, the other clients are in the same relative order,
\* no other client's fields changed, and the listening socket is still open
\* and listening with its accept watcher started.
C11_TeardownAffectsOnlyThatPeer ==
    TearingDown =>
        LET others == Others(entry.tailq, this_client) IN
        /\ Others(client_tailq_head, this_client) = others
        /\ pc = "read_return" => client_tailq_head = others
        /\ \A c \in Range(others) :
            /\ c \in Registered
            /\ c \in allocated
            /\ c \in io_active
            /\ socketd[c] \in sock_open
        /\ io_active \ {this_client} = entry.io_active \ {this_client}
        /\ allocated \ {this_client} = entry.allocated \ {this_client}
        /\ sock_open \ {socketd[this_client]} = entry.sock_open \ {socketd[this_client]}
        /\ socketd = entry.socketd
        /\ w_accept_active
        /\ listen_socket = "open"
        /\ listening

\* The middle one of three registered peers was torn down; the first and the
\* third are left, in that order.
C11_Witness ==
    /\ pc = "read_return"
    /\ TerminalRead
    /\ Len(entry.tailq) = 3
    /\ this_client = entry.tailq[2]
    /\ client_tailq_head = <<entry.tailq[1], entry.tailq[3]>>

\* ---- scheduling ----
\* A step of main's bootstrap or of the callback that is executing: the
\* thread runs on until it is back in ev_loop.
Running ==
    \/ Main
    \/ AcceptCall
    \/ AcceptCalloc
    \/ AcceptInsert
    \/ AcceptStart
    \/ AcceptReturn
    \/ Recv
    \/ ForeachSend
    \/ ForeachSkip
    \/ ForeachDone
    \/ TeardownStop
    \/ TeardownRemove
    \/ TeardownClose
    \/ TeardownFree
    \/ ReadReturn

\* recv on s would not report would-block: the socket is ready for reading.
Readable(s) ==
    /\ s \in sock_open
    /\ inbuf[s] # <<>> \/ remote[s] \in {"closed", "reset"}

\* ev_loop invokes read_cb for a client whose socket is ready.
ReadyDispatch(c) == ReadDispatch(c) /\ Readable(socketd[c])

\* The remote ends write without bound; the thread keeps running, and each
\* time ev_loop polls it invokes the callback of every watcher whose socket
\* is ready.
FloodSpec ==
    /\ InitFlood /\ [][Next]_vars
    /\ WF_vars(Running)
    /\ \A c \in Clients : SF_vars(ReadyDispatch(c))

\* The remote end of client c's connection closed it or reset it.
Disconnected(c) == socketd[c] \in Socks /\ remote[socketd[c]] \in {"closed", "reset"}

\* read_cb is executing for a client whose disconnection recv could already
\* see when the callback was entered.
EnteredDisconnected ==
    /\ pc \in {"recv", "foreach", "ev_io_stop", "TAILQ_REMOVE", "closesocket", "free",
               "read_return"}
    /\ entry_sock.remote \in {"closed", "reset"}

\* Such an invocation returns only through the teardown.
C12_RemovedInThatInvocation ==
    /\ EnteredDisconnected /\ pc = "read_return" => TornDown(this_client)
    /\ EnteredDisconnected /\ pc \in {"recv", "foreach"} =>
        /\ this_client \in Registered
        /\ Len(inbuf[socketd[this_client]]) <= Len(entry_sock.inbuf)

\* The recv that finds nothing pending on a disconnected socket starts the
\* teardown.
C12_CloseSeenStep ==
    (pc = "recv" /\ Disconnected(this_client) /\ inbuf[socketd[this_client]] = <<>>
        /\ pc' # pc)
    => pc' = "ev_io_stop"

\* C12 (a disconnected peer is removed): if ev_loop keeps dispatching, that
\* is the thread is back in ev_loop again and again and the callback of every
\* ready watcher is invoked, a registered client whose remote end closed or
\* reset the connection is eventually out of the queue; and the read_cb
\* invocation for it that begins when the disconnection is visible to recv
\* reads what is pending, starts the teardown at the recv that finds nothing
\* more, and returns with the client torn down.
C12_DisconnectedPeerRemoved ==
    /\ ([]<>Quiescent) =>
        \A c \in Clients : (c \in Registered /\ Disconnected(c)) ~> (c \notin Registered)
    /\ []C12_RemovedInThatInvocation
    /\ [][C12_CloseSeenStep]_vars

\* read_cb was entered for a client that had written a byte and closed; it
\* returned with the client torn down.
C12_Witness ==
    /\ pc = "read_return"
    /\ entry_sock.remote = "closed"
    /\ entry_sock.inbuf # <<>>
    /\ TornDown(this_client)

\* The five bootstrap calls of main all succeeded.
BootstrapDone ==
    /\ listen_socket = "open"
    /\ listen_nonblock
    /\ listen_reuseaddr
    /\ listen_bound
    /\ listening

\* main is still in its bootstrap, or has returned EXIT_FAILURE from it.
InBootstrap ==
    pc \in {"socket", "ioctlsocket", "setsockopt", "bind", "listen", "ev_io_start",
            "exit_failure"}

\* The states of C13: main returned EXIT_FAILURE only with a bootstrap call
\* failed and the watcher not started; the loop runs only with all five done.
C13_StartupState ==
    /\ pc = "exit_failure" =>
        /\ ~BootstrapDone
        /\ ~w_accept_active
        /\ naccepted = 0
        /\ allocated = {} /\ client_tailq_head = <<>> /\ io_active = {}
    /\ (w_accept_active \/ pc = "ev_io_start" \/ ~InBootstrap) => BootstrapDone
    /\ ~InBootstrap => w_accept_active
    /\ pc = "ioctlsocket" => listen_socket = "open"
    /\ pc = "setsockopt" => listen_nonblock
    /\ pc = "bind" => listen_reuseaddr
    /\ pc = "listen" => listen_bound

\* After main returned EXIT_FAILURE the thread does nothing more.
C13_ExitStep ==
    pc = "exit_failure" =>
        UNCHANGED <<pc, sockvars, w_accept_active, regvars, naccepted, acceptlocals,
                    readlocals>>

\* C13 (startup failures are fatal): if socket, ioctlsocket (FIONBIO),
\* setsockopt (SO_REUSEADDR), bind or listen fails, main returns EXIT_FAILURE
\* without starting the accept watcher and nothing of the program runs after
\* that; the accept watcher is started and ev_loop runs only after all five
\* calls have succeeded, each call being made only after the ones before it
\* succeeded.
C13_StartupFailuresFatal ==
    /\ []C13_StartupState
    /\ [][C13_ExitStep]_vars

\* listen failed after socket, ioctlsocket, setsockopt and bind succeeded.
C13_Witness ==
    /\ pc = "exit_failure"
    /\ listen_bound
    /\ ~listening
    /\ ~w_accept_active

\* accept_cb or read_cb is executing.
InCallback == ~InBootstrap /\ ~Quiescent

\* C14 (no callback blocks the loop without bound): every invocation of
\* accept_cb and of read_cb returns to ev_loop, whatever the remote ends do
\* while it runs.
C14_CallbacksTerminate == InCallback ~> Quiescent

\* The bytes `p` are in `log` one after the other, starting after the first
\* `from` entries of it.
ContainsRun(log, p, from) ==
    \E i \in from..Len(log) : SubSeq(log, i + 1, i + Len(p)) = p

\* The states of C15: where read_cb returns, and what it has read and handed
\* on when it returns after a would-block.
C15_DrainState ==
    pc = "read_return" =>
        /\ TerminalRead \/ WouldBlockRead
        /\ WouldBlockRead =>
            LET s == socketd[this_client] IN
            /\ Registry = entry
            /\ ContainsRun(rd[s], entry_sock.inbuf, 0)
            /\ \A r \in Range(Others(client_tailq_head, this_client)) :
                /\ ContainsRun(rd[s], entry_sock.inbuf, joined[r][s])
                /\ BytesFrom(handed[socketd[r]], s) =
                       SubSeq(rd[s], joined[r][s] + 1, Len(rd[s]))

\* read_cb leaves its loop for the return only at a recv that found nothing
\* pending, and reads at most a chunk at a time.
C15_DrainStep ==
    /\ (pc = "recv" /\ pc' = "read_return") =>
        /\ inbuf[socketd[this_client]] = <<>>
        /\ UNCHANGED <<rd, handed>>
    /\ (pc = "recv" /\ pc' = "foreach") =>
        /\ read' \in 1..ChunkSize
        /\ Len(rd'[socketd[this_client]]) = Len(rd[socketd[this_client]]) + read'

\* C15 (full drain per readiness event): one invocation of read_cb reads
\* chunk after chunk until recv reports would-block (or the teardown); when
\* it returns after a would-block, everything that was pending on the socket
\* when it was entered, also when that was more than one chunk, has been read,
\* and every other registered client was handed all of it, in the order it
\* was read.
C15_FullDrain ==
    /\ []C15_DrainState
    /\ [][C15_DrainStep]_vars

\* Two chunks were pending when read_cb was entered; it returned after the
\* would-block with both handed to another client.
C15_Witness ==
    /\ pc = "read_return"
    /\ WouldBlockRead
    /\ Len(entry_sock.inbuf) > ChunkSize
    /\ \E r \in Registered \ {this_client} :
        BytesFrom(handed[socketd[r]], socketd[this_client]) = entry_sock.inbuf

InAcceptCb ==
    pc \in {"accept_cb", "calloc", "TAILQ_INSERT_TAIL", "client_ev_io_start",
            "accept_return"}

InReadCb ==
    pc \in {"recv", "foreach", "ev_io_stop", "TAILQ_REMOVE", "closesocket", "free",
            "read_return"}

\* Client c is connected: allocated, in the queue, watcher started, socket open.
Connected(c) ==
    /\ c \in allocated
    /\ c \in Registered
    /\ c \in io_active
    /\ socketd[c] \in sock_open

\* The states of C16: one callback at most is executing, the registry a
\* callback works on is the one it was entered with until it changes it
\* itself, and where a callback can begin every client is connected, torn
\* down, or not yet created.
C16_OneCallbackState ==
    /\ InCallback <=> (InAcceptCb \/ InReadCb)
    /\ InReadCb =>
        /\ this_client # NULL
        /\ revents = {} /\ client_socket = INVALID_SOCKET /\ acc_client = NULL
    /\ InAcceptCb =>
        /\ revents # {}
        /\ this_client = NULL /\ client = NULL /\ buffer = <<>> /\ targets = <<>>
    /\ ~InCallback =>
        /\ this_client = NULL /\ client = NULL /\ revents = {} /\ acc_client = NULL
        /\ entry = NoEntry
    /\ pc \in {"recv", "foreach", "ev_io_stop", "accept_cb"} => Registry = entry
    /\ Quiescent =>
        \A c \in Clients :
            IF c \in allocated \cup freed
            THEN Connected(c) \/ TornDown(c)
            ELSE c \notin Registered /\ c \notin io_active

\* The steps of C16: a callback is entered only from ev_loop, the callback
\* that is executing stays the same one until it returns, only it changes the
\* registry, and what is handed to send during it is chunks read from its own
\* client's socket.
C16_OneCallbackStep ==
    /\ InCallback' /\ (pc' \in {"accept_cb", "recv"}) /\ entry' # entry => Quiescent
    /\ InCallback /\ InCallback' =>
        /\ entry' = entry
        /\ this_client' = this_client
        /\ InReadCb' = InReadCb
    /\ ~InCallback /\ ~InCallback' => UNCHANGED <<regvars, sock_open, handed, rd>>
    /\ \A t \in Socks :
        handed'[t] # handed[t] =>
            /\ pc = "foreach" /\ pc' = "foreach"
            /\ handed'[t] = handed[t] \o From(socketd[this_client], Chunk(buffer, read))
            /\ this_client' = this_client
            /\ \A u \in Socks \ {t} : handed'[u] = handed[u]

\* C16 (callbacks run to completion): accept_cb and read_cb are entered only
\* from ev_loop and no other callback is entered before the one executing has
\* returned; the registry a traversal works on is the one its callback was
\* entered with; whenever a callback can begin, every client is connected or
\* completely torn down, never in between; and every chunk handed to send
\* during an invocation of read_cb was read from that invocation's client.
C16_RunToCompletion ==
    /\ []C16_OneCallbackState
    /\ [][C16_OneCallbackStep]_vars

\* read_cb is in a traversal while another client's socket is ready and a
\* connection waits to be accepted: neither callback runs before it returns.
C16_Witness ==
    /\ pc = "foreach"
    /\ Pending # {}
    /\ \E c \in io_active \ {this_client} : Readable(socketd[c])
    /\ Registry = entry

\* read_cb is tearing this_client down, or has, because recv returned 0.
ClosedByPeer == TearingDown /\ read = 0

\* The states of C17: what has been read and handed on when recv returned 0.
C17_RelayedState ==
    ClosedByPeer =>
        LET s == socketd[this_client]
            p == entry_sock.inbuf IN
        /\ entry_sock.remote = "closed" =>
            SubSeq(rd[s], Len(rd[s]) - Len(p) + 1, Len(rd[s])) = p
        /\ \A r \in Range(Others(entry.tailq, this_client)) :
            /\ r \in allocated
            /\ BytesFrom(handed[socketd[r]], s) =
                   SubSeq(rd[s], joined[r][s] + 1, Len(rd[s]))

\* recv returns 0 only with the remote end closed and nothing left pending,
\* and that step hands on nothing and drops nothing.
C17_CloseStep ==
    (pc = "recv" /\ pc' = "ev_io_stop" /\ read' = 0) =>
        /\ remote[socketd[this_client]] = "closed"
        /\ inbuf[socketd[this_client]] = <<>>
        /\ UNCHANGED <<rd, handed, delivered, regvars>>

\* C17 (data before close is relayed): when recv returns 0 and read_cb tears
\* the client down, every chunk it read before, in particular everything that
\* was pending together with the close when the callback was entered, has
\* been handed to send for every other registered client, in read order; the
\* recv that returns 0 comes only after all pending bytes were read.
C17_DataBeforeCloseRelayed ==
    /\ []C17_RelayedState
    /\ [][C17_CloseStep]_vars

\* A byte and the close were pending when read_cb was entered; the byte was
\* handed to another client before the recv that returned 0.
C17_Witness ==
    /\ pc = "ev_io_stop"
    /\ read = 0
    /\ entry_sock.remote = "closed"
    /\ entry_sock.inbuf # <<>>
    /\ \E r \in Registered \ {this_client} :
        BytesFrom(handed[socketd[r]], socketd[this_client]) = entry_sock.inbuf

\* The clients in the queue that hold socket s.
Owners(s) == {c \in Registered : socketd[c] = s}

\* C18 (no accepted socket without an owner): at every quiescent point each
\* socket that accept returned is closed or is the socket of exactly one
\* client in the queue.
C18_NoOrphanSocket ==
    Quiescent =>
        \A s \in 1..naccepted :
            s \notin sock_open \/ Cardinality(Owners(s)) = 1

\* The bytes read from socket s before client r was inserted into the queue.
ReadBeforeJoined(r, s) == Range(SubSeq(rd[s], 1, joined[r][s]))

\* The clients that were ever created for socket t.
ClientsOf(t) == {c \in allocated \cup freed : socketd[c] = t}

\* The states of C19: what the log of the sends to each socket can hold.
C19_NoHistoryState ==
    /\ \A t \in Socks :
        /\ ClientsOf(t) = {} => handed[t] = <<>>
        /\ NoDuplicates(handed[t])
        /\ \A r \in ClientsOf(t) : \A s \in Socks :
            Range(BytesFrom(handed[t], s)) \cap ReadBeforeJoined(r, s) = {}
    /\ Quiescent => buffer = <<>> /\ read = 0

\* A send hands over the chunk that the last recv of this invocation read,
\* to a client that was in the queue when it was read; nothing but a send of
\* read_cb adds to what a socket was handed.
C19_NoHistoryStep ==
    \A t \in Socks :
        handed'[t] # handed[t] =>
            LET s == socketd[this_client] IN
            /\ pc = "foreach"
            /\ t = socketd[client]
            /\ client \in Range(entry.tailq) /\ client \in Registered
            /\ handed'[t] =
                   handed[t] \o From(s, SubSeq(rd[s], Len(rd[s]) - read + 1, Len(rd[s])))

\* C19 (no history): a chunk is handed to send only for clients that were in
\* the queue when read_cb read it, each chunk once and right after it was
\* read; a client is never handed a byte that was read before it was
\* inserted, and a socket that never became a client's is handed nothing.
C19_NoHistory ==
    /\ []C19_NoHistoryState
    /\ [][C19_NoHistoryStep]_vars

\* A client was inserted after one byte had been read from another client;
\* it was handed the byte read after that and not the one before.
C19_Witness ==
    \E r \in Registered : \E s \in Socks \ {socketd[r]} :
        /\ joined[r][s] = 1
        /\ Len(rd[s]) = 2
        /\ BytesFrom(handed[socketd[r]], s) = <<rd[s][2]>>

====
